---- MODULE Spec2Model ----
(***************************************************************************)
(* A model of QVFitter, the quantum-volume fitter of                        *)
(* qiskit/ignis/verification/quantum_volume/fitters.py.                     *)
(*                                                                         *)
(* Numbers.  The code computes in floating point.  The model computes with *)
(* exact values: a real is a normalised fraction <<n, d>> (d > 0), the     *)
(* floating-point "not a number" is NaN, and a standard error x ** 0.5 is  *)
(* the record [root |-> x], the exact square root of the fraction x.       *)
(* Rounding of the floating-point operations is not modelled.              *)
(*                                                                         *)
(* Names.  The circuit name 'qv_depth_%d_trial_%d' is the pair             *)
(* <<depth, trial>>; a bit string is the sequence of its bits.             *)
(***************************************************************************)
EXTENDS Integers, Sequences, FiniteSets, TLC

(***************************************************************************)
(* Bounds of the model.                                                    *)
(***************************************************************************)
\* trial indices that occur in circuit names are 0 .. MaxTrial
MaxTrial == 1
\* add_data is not called once the result list holds MaxResults batches
MaxResults == 2

(***************************************************************************)
(* Exact arithmetic.                                                       *)
(***************************************************************************)
RECURSIVE GCD(_, _)
GCD(a, b) == IF b = 0 THEN a ELSE GCD(b, a % b)

NaN == <<0, 0>>

IsNaN(x) == x[2] = 0

Frac(n, d) ==
    IF d = 0 THEN NaN
    ELSE LET g == GCD(IF n < 0 THEN -n ELSE n, d)
         IN  <<n \div g, d \div g>>

Zero == Frac(0, 1)

One == Frac(1, 1)

FromInt(n) == Frac(n, 1)

RAdd(x, y) ==
    IF IsNaN(x) \/ IsNaN(y) THEN NaN
    ELSE Frac(x[1] * y[2] + y[1] * x[2], x[2] * y[2])

RSub(x, y) ==
    IF IsNaN(x) \/ IsNaN(y) THEN NaN
    ELSE Frac(x[1] * y[2] - y[1] * x[2], x[2] * y[2])

RMul(x, y) ==
    IF IsNaN(x) \/ IsNaN(y) THEN NaN
    ELSE Frac(x[1] * y[1], x[2] * y[2])

\* numpy float division: a zero divisor gives nan (0/0) with a warning, no error.
\* The model never divides a non-zero value by zero.
RDiv(x, y) ==
    IF IsNaN(x) \/ IsNaN(y) \/ y[1] = 0 THEN NaN
    ELSE Frac(x[1] * y[2], x[2] * y[1])

\* x > y; every comparison with nan is false
RGreater(x, y) ==
    /\ ~IsNaN(x)
    /\ ~IsNaN(y)
    /\ x[1] * y[2] > y[1] * x[2]

\* x ** 0.5; the square root of nan is nan, Root(NaN)
Root(x) == [root |-> x]

RECURSIVE SumSeq(_)
SumSeq(s) == IF s = <<>> THEN Zero ELSE RAdd(Head(s), SumSeq(Tail(s)))

RECURSIVE Pow2(_)
Pow2(n) == IF n = 0 THEN 1 ELSE 2 * Pow2(n - 1)

(***************************************************************************)
(* Circuit names: 'qv_depth_%d_trial_%d'.                                  *)
(***************************************************************************)
CircName(depth, trialidx) == <<depth, trialidx>>

\* int(circname.split('_')[2])
NameDepth(circname) == circname[1]

\* int(circname.split('_')[-1])
NameTrial(circname) == circname[2]

\* self._depths = [len(l) for l in qubit_lists], for qubit_lists
\* [[0], [0, 1]]
Depths == <<1, 2>>

Trials == 0 .. MaxTrial

(***************************************************************************)
(* Dictionaries are functions with a finite domain.                        *)
(***************************************************************************)
EmptyDict == <<>>

Put(dict, key, value) == (key :> value) @@ dict

Has(dict, key) == key \in DOMAIN dict

\* dict.get(key, 0)
GetOr0(dict, key) == IF key \in DOMAIN dict THEN dict[key] ELSE 0

(***************************************************************************)
(* The ideal distribution of a circuit.                                    *)
(***************************************************************************)
\* "{0:0%db}".format(b): b in binary, zero-padded to depth digits
FormatBits(b, depth) ==
    [i \in 1 .. depth |-> (b \div Pow2(depth - i)) % 2]

\* pmap as the ordered list of its items (b = 0 .. 2**depth - 1); pvector[b]
\* is given in tenths
PMap(pvector, depth) ==
    [k \in 1 .. Pow2(depth) |->
        [key |-> FormatBits(k - 1, depth), val |-> Frac(pvector[k], 10)]]

PMapGet(pmap, key) ==
    LET hit == {k \in DOMAIN pmap : pmap[k].key = key}
    IN  IF hit = {} THEN Zero ELSE pmap[CHOOSE k \in hit : TRUE].val

RECURSIVE Insert(_, _)
Insert(x, sorted) ==
    IF sorted = <<>> THEN <<x>>
    ELSE IF RGreater(x, Head(sorted))
         THEN <<Head(sorted)>> \o Insert(x, Tail(sorted))
         ELSE <<x>> \o sorted

RECURSIVE SortValues(_)
SortValues(s) == IF s = <<>> THEN <<>> ELSE Insert(Head(s), SortValues(Tail(s)))

\* np.median of the values of one distribution: the middle value, or the mean
\* of the two middle values of an even number of values
MedianProbability(pmap) ==
    LET values == SortValues([k \in DOMAIN pmap |-> pmap[k].val])
        n      == Len(values)
    IN  IF n % 2 = 1 THEN values[(n + 1) \div 2]
        ELSE RDiv(RAdd(values[n \div 2], values[n \div 2 + 1]), FromInt(2))

\* the comparison of _heavy_strings with >= in place of >
IsHeavyOrEqual(prob, ideal_median) == ~RGreater(ideal_median, prob)

\* ideal_distribution[x] > ideal_median
IsHeavy(prob, ideal_median) == RGreater(prob, ideal_median)

\* _heavy_strings: the keys, in the order of the dictionary, whose
\* probability exceeds the median
HeavyStrings(pmap, ideal_median) ==
    LET keep == SelectSeq(pmap, LAMBDA item : IsHeavy(item.val, ideal_median))
    IN  [k \in DOMAIN keep |-> keep[k].key]

\* _subset_probability over a probability dictionary
SubsetProbability(strings, pmap) ==
    SumSeq([k \in DOMAIN strings |-> PMapGet(pmap, strings[k])])

RECURSIVE SumCounts(_, _)
SumCounts(strings, counts) ==
    IF strings = <<>> THEN 0
    ELSE GetOr0(counts, Head(strings)) + SumCounts(Tail(strings), counts)

\* _subset_probability over a count dictionary
SubsetCount(strings, counts) == SumCounts(strings, counts)

(***************************************************************************)
(* Inputs.  A statevector result is the list of its circuits, each with    *)
(* its name and its probability vector (in tenths); a backend result is    *)
(* the list of its circuits, each with its name and its count dictionary.  *)
(***************************************************************************)
\* the ideal probabilities of the circuits of a full statevector result
PVector(depth, trialidx) ==
    IF depth = 1 THEN <<5, 5>>
    ELSE (IF trialidx % 2 = 0 THEN <<4, 3, 2, 1>> ELSE <<4, 2, 2, 2>>)

\* the ideal probabilities of a depth 1 circuit simulated on its own
PVectorAlone == <<7, 3>>

SvCirc(depth, trialidx, pvector) ==
    [name |-> CircName(depth, trialidx), pvector |-> pvector]

\* the result of the circuits of both depths of a trial
SvFull(t) == <<SvCirc(2, t, PVector(2, t)), SvCirc(1, t, PVector(1, t))>>

\* the result of the depth 1 circuit of a trial
SvAlone(t) == <<SvCirc(1, t, PVectorAlone)>>

SvResults == {SvFull(t) : t \in Trials} \cup {SvAlone(t) : t \in Trials}

\* add_statevectors is given one result, or a list of two
SvInputs ==
    {<<r>> : r \in SvResults}
    \cup {<<SvAlone(t), SvFull(t)>> : t \in Trials}
    \cup {<<SvFull(0), SvFull(MaxTrial)>>}

Bits1(a) == <<a>>

Bits2(a, b) == <<a, b>>

Counts1 == (Bits1(0) :> 2) @@ (Bits1(1) :> 1)

\* the counts of the depth 2 circuit of a trial in a full run
Counts2(t) ==
    IF t % 2 = 0
    THEN (Bits2(0, 0) :> 4) @@ (Bits2(0, 1) :> 3) @@ (Bits2(1, 0) :> 2)
         @@ (Bits2(1, 1) :> 1)
    ELSE (Bits2(0, 0) :> 1) @@ (Bits2(1, 0) :> 1)

\* the counts of the depth 2 circuit of a trial run on its own
Counts2b(t) ==
    IF t % 2 = 0 THEN (Bits2(0, 0) :> 49) @@ (Bits2(1, 0) :> 1)
    ELSE (Bits2(0, 0) :> 3)

Exp(depth, trialidx, counts) ==
    [name |-> CircName(depth, trialidx), counts |-> counts]

\* the result of running the circuits of both depths of a trial
RunFull(t) == <<Exp(1, t, Counts1), Exp(2, t, Counts2(t))>>

\* the result of running the depth 2 circuit of a trial
RunAlone(t) == <<Exp(2, t, Counts2b(t))>>

BackendResults == {RunFull(t) : t \in Trials} \cup {RunAlone(t) : t \in Trials}

\* add_data is given one result, or a list of none or of two
DataInputs ==
    {<<>>} \cup {<<r>> : r \in BackendResults}
    \cup {<<RunFull(t), RunAlone(t)>> : t \in Trials}
    \cup {<<RunAlone(t), RunFull(t)>> : t \in Trials}

(***************************************************************************)
(* The state of a QVFitter.                                                *)
(***************************************************************************)
VARIABLES
    heavy_outputs,            \* _heavy_outputs: name -> list of bit strings
    heavy_output_prob_ideal,  \* _heavy_output_prob_ideal: name -> probability
    result_list,              \* _result_list
    ntrials,                  \* _ntrials
    circ_shots,               \* _circ_shots: name -> shots
    heavy_output_counts,      \* _heavy_output_counts: name -> count
    ydata,                    \* _ydata: [] or the 4 x len(depths) table
    op,                       \* the last method called with an input
    err,                      \* what it raised, or "none"
    success_list,             \* what qv_success returned, when op is qv_success
    fit,                      \* how current the tables are, see FitAfterData
    pvectors,                 \* the probability vector each name was added with
    raised                    \* whether add_statevectors or add_data has raised

vars ==
    <<heavy_outputs, heavy_output_prob_ideal, result_list, ntrials, circ_shots,
      heavy_output_counts, ydata, op, err, success_list, fit, pvectors, raised>>

\* __init__ with backend_result = None and statevector_result = None
Init ==
    /\ heavy_outputs = EmptyDict
    /\ heavy_output_prob_ideal = EmptyDict
    /\ result_list = <<>>
    /\ ntrials = 0
    /\ circ_shots = EmptyDict
    /\ heavy_output_counts = EmptyDict
    /\ ydata = <<>>
    /\ op = "init"
    /\ err = "none"
    /\ success_list = <<>>
    /\ fit = "stale"
    /\ pvectors = EmptyDict
    /\ raised = FALSE

(***************************************************************************)
(* add_statevectors                                                        *)
(***************************************************************************)
RECURSIVE Flatten(_)
Flatten(results) ==
    IF results = <<>> THEN <<>> ELSE Head(results) \o Flatten(Tail(results))

\* the check of add_statevectors left out
AlreadyAddedNever(ho, circname) == FALSE

\* circname in self._heavy_outputs
AlreadyAdded(ho, circname) == Has(ho, circname)

\* the loops of add_statevectors over the circuits of the results, in order;
\* pv records the probability vector of every circuit added
RECURSIVE RegisterAll(_, _, _, _)
RegisterAll(circs, ho, hp, pv) ==
    IF circs = <<>> THEN [ho |-> ho, hp |-> hp, pv |-> pv, err |-> "none"]
    ELSE LET circname == Head(circs).name
             depth    == NameDepth(circname)
         IN  IF AlreadyAdded(ho, circname)
             THEN [ho |-> ho, hp |-> hp, pv |-> pv, err |-> "Duplicate"]
             ELSE LET pmap        == PMap(Head(circs).pvector, depth)
                      median_prob == MedianProbability(pmap)
                      heavy       == HeavyStrings(pmap, median_prob)
                  IN  RegisterAll(Tail(circs),
                                  Put(ho, circname, heavy),
                                  Put(hp, circname, SubsetProbability(heavy, pmap)),
                                  Put(pv, circname, Head(circs).pvector))

\* new_statevector_result is None: the call returns at once
AddStatevectorsNone == UNCHANGED vars

AddStatevectors(new_statevector_result) ==
    LET r == RegisterAll(Flatten(new_statevector_result), heavy_outputs,
                         heavy_output_prob_ideal, pvectors)
    IN  /\ heavy_outputs' = r.ho
        /\ heavy_output_prob_ideal' = r.hp
        /\ pvectors' = r.pv
        /\ op' = "add_statevectors"
        /\ err' = r.err
        /\ success_list' = <<>>
        /\ fit' = "stale"
        /\ raised' = (raised \/ r.err # "none")
        /\ UNCHANGED <<result_list, ntrials, circ_shots, heavy_output_counts,
                       ydata>>

(***************************************************************************)
(* calc_data                                                               *)
(***************************************************************************)
\* whether result.get_counts(circ_name) returns (it raises QiskitError for a
\* circuit the result does not hold)
HasCounts(result, circ_name) ==
    \E k \in DOMAIN result : result[k].name = circ_name

\* result.get_counts(circ_name)
GetCounts(result, circ_name) ==
    LET hit == {k \in DOMAIN result : result[k].name = circ_name}
    IN  result[CHOOSE k \in hit : \A j \in hit : k <= j].counts

\* only the last result is asked for its counts
CountListLastOnly(results, circ_name) ==
    IF results = <<>> \/ ~HasCounts(results[Len(results)], circ_name) THEN <<>>
    ELSE <<GetCounts(results[Len(results)], circ_name)>>

\* count_list: the counts of circ_name of every result that has them
RECURSIVE CountList(_, _)
CountList(results, circ_name) ==
    IF results = <<>> THEN <<>>
    ELSE (IF HasCounts(Head(results), circ_name)
          THEN <<GetCounts(Head(results), circ_name)>> ELSE <<>>)
         \o CountList(Tail(results), circ_name)

RECURSIVE SumOver(_, _)
SumOver(count_list, x) ==
    IF count_list = <<>> THEN 0
    ELSE GetOr0(Head(count_list), x) + SumOver(Tail(count_list), x)

\* build_counts_dict_from_list of characterization/fitters.py: the counts of
\* the dictionaries of the list, added up per bit string
BuildCountsDictFromList(count_list) ==
    LET keys == UNION {DOMAIN count_list[k] : k \in DOMAIN count_list}
    IN  [x \in keys |-> SumOver(count_list, x)]

RECURSIVE SumValues(_)
SumValues(counts) ==
    IF DOMAIN counts = {} THEN 0
    ELSE LET x == CHOOSE y \in DOMAIN counts : TRUE
         IN  counts[x] + SumValues([y \in DOMAIN counts \ {x} |-> counts[y]])

\* the shots of a circuit added to those stored before
StoreShotsAdding(shots, circ_name, value) ==
    Put(shots, circ_name, GetOr0(shots, circ_name) + value)

\* self._circ_shots[circ_name] = sum(circ_counts[circ_name].values())
StoreShots(shots, circ_name, value) == Put(shots, circ_name, value)

\* the loops of calc_data from the k-th (trial, depth) pair on; a circuit
\* with no heavy outputs raises KeyError after its shots are stored
RECURSIVE CalcDataLoop(_, _, _, _, _, _)
CalcDataLoop(k, results, nt, ho, shots, counts) ==
    IF k >= nt * Len(Depths) THEN [shots |-> shots, counts |-> counts, err |-> "none"]
    ELSE LET trialidx    == k \div Len(Depths)
             depth       == Depths[(k % Len(Depths)) + 1]
             circ_name   == CircName(depth, trialidx)
             circ_counts == BuildCountsDictFromList(CountList(results, circ_name))
             shots1      == StoreShots(shots, circ_name, SumValues(circ_counts))
         IN  IF ~Has(ho, circ_name)
             THEN [shots |-> shots1, counts |-> counts, err |-> "KeyError"]
             ELSE CalcDataLoop(k + 1, results, nt, ho, shots1,
                               Put(counts, circ_name,
                                   SubsetCount(ho[circ_name], circ_counts)))

CalcDataOf(results, nt, ho, shots, counts) ==
    CalcDataLoop(0, results, nt, ho, shots, counts)

(***************************************************************************)
(* calc_statistics                                                         *)
(***************************************************************************)
\* np.zeros([4, len(self._depths)]); rows 1 and 3 hold square roots
ZeroTable ==
    [row \in 1 .. 4 |->
        [depthidx \in 1 .. Len(Depths) |->
            IF row \in {2, 4} THEN Root(Zero) ELSE Zero]]

RECURSIVE SumTrials(_, _, _)
SumTrials(dict, depth, n) ==
    IF n = 0 THEN 0
    ELSE dict[CircName(depth, n - 1)] + SumTrials(dict, depth, n - 1)

RECURSIVE SumTrialsFrac(_, _, _)
SumTrialsFrac(dict, depth, n) ==
    IF n = 0 THEN Zero
    ELSE RAdd(dict[CircName(depth, n - 1)], SumTrialsFrac(dict, depth, n - 1))

\* exp_shots carried over from the depth before
ExpShotsCarried(carried) == carried

\* exp_shots = 0, at the start of every depth
ExpShotsStart(carried) == 0

\* (p * (1.0 - p) / ntrials) ** 0.5
StdErr(p, nt) == Root(RDiv(RMul(p, RSub(One, p)), FromInt(nt)))

SetCell(table, row, depthidx, value) ==
    [table EXCEPT ![row][depthidx] = value]

\* the loop of calc_statistics over the depths from depthidx on; a circuit
\* missing from one of the three dictionaries raises KeyError
RECURSIVE CalcStatisticsLoop(_, _, _, _, _, _, _)
CalcStatisticsLoop(depthidx, table, carried, nt, shots, counts, hp) ==
    IF depthidx > Len(Depths) THEN [ydata |-> table, err |-> "none"]
    ELSE LET depth  == Depths[depthidx]
             cnames == {CircName(depth, t) : t \in 0 .. nt - 1}
         IN  IF \E c \in cnames : ~Has(counts, c) \/ ~Has(shots, c) \/ ~Has(hp, c)
             THEN [ydata |-> table, err |-> "KeyError"]
             ELSE LET exp_shots == ExpShotsStart(carried) + SumTrials(shots, depth, nt)
                      exp_sum   == SumTrials(counts, depth, nt)
                      y0 == RDiv(FromInt(exp_sum), FromInt(exp_shots))
                      y2 == RDiv(SumTrialsFrac(hp, depth, nt), FromInt(nt))
                      t0 == SetCell(table, 1, depthidx, y0)
                      t1 == SetCell(t0, 2, depthidx, StdErr(y0, nt))
                      t2 == SetCell(t1, 3, depthidx, y2)
                      t3 == SetCell(t2, 4, depthidx, StdErr(y2, nt))
                  IN  CalcStatisticsLoop(depthidx + 1, t3, exp_shots, nt, shots,
                                         counts, hp)

CalcStatisticsOf(nt, shots, counts, hp) ==
    CalcStatisticsLoop(1, ZeroTable, 0, nt, shots, counts, hp)

\* How current the tables are: "stale" after an ingestion; "data" after
\* calc_data; "fresh" after calc_data and then calc_statistics; "redata" after
\* calc_data on fresh tables; "refresh" after calc_statistics then.
FitAfterData(f) == IF f \in {"fresh", "redata", "refresh"} THEN "redata" ELSE "data"

FitAfterStatistics(f) ==
    IF f \in {"data", "fresh"} THEN "fresh"
    ELSE IF f \in {"redata", "refresh"} THEN "refresh" ELSE "stale"

CalcData ==
    LET r == CalcDataOf(result_list, ntrials, heavy_outputs, circ_shots,
                        heavy_output_counts)
    IN  /\ circ_shots' = r.shots
        /\ heavy_output_counts' = r.counts
        /\ op' = "calc_data"
        /\ err' = r.err
        /\ success_list' = <<>>
        /\ fit' = FitAfterData(fit)
        /\ UNCHANGED <<heavy_outputs, heavy_output_prob_ideal, result_list,
                       ntrials, ydata, pvectors, raised>>

CalcStatistics ==
    LET r == CalcStatisticsOf(ntrials, circ_shots, heavy_output_counts,
                              heavy_output_prob_ideal)
    IN  /\ ydata' = r.ydata
        /\ op' = "calc_statistics"
        /\ err' = r.err
        /\ success_list' = <<>>
        /\ fit' = FitAfterStatistics(fit)
        /\ UNCHANGED <<heavy_outputs, heavy_output_prob_ideal, result_list,
                       ntrials, circ_shots, heavy_output_counts, pvectors,
                       raised>>

(***************************************************************************)
(* add_data                                                                *)
(***************************************************************************)
\* the trial count set to that of the last circuit seen
NextNTrialsLast(nt, ntrials_circ) == ntrials_circ + 1

\* if (ntrials_circ+1) > self._ntrials: self._ntrials = ntrials_circ+1
NextNTrials(nt, ntrials_circ) ==
    IF ntrials_circ + 1 > nt THEN ntrials_circ + 1 ELSE nt

\* only circuits of the first trial are looked up
IdealMissingFirstTrial(hp, circname) ==
    NameTrial(circname) = 0 /\ ~Has(hp, circname)

\* qvcirc.header.name not in self._heavy_output_prob_ideal
IdealMissing(hp, circname) == ~Has(hp, circname)

\* the loop of add_data over the circuits of one result
RECURSIVE ScanResult(_, _, _)
ScanResult(circs, nt, hp) ==
    IF circs = <<>> THEN [nt |-> nt, err |-> "none"]
    ELSE LET circname == Head(circs).name
             nt1      == NextNTrials(nt, NameTrial(circname))
         IN  IF IdealMissing(hp, circname)
             THEN [nt |-> nt1, err |-> "MissingIdeal"]
             ELSE ScanResult(Tail(circs), nt1, hp)

\* the loop of add_data over the results: each is appended, then scanned
RECURSIVE AddResults(_, _, _, _)
AddResults(results, rl, nt, hp) ==
    IF results = <<>> THEN [rl |-> rl, nt |-> nt, err |-> "none"]
    ELSE LET rl1 == Append(rl, Head(results))
             s   == ScanResult(Head(results), nt, hp)
         IN  IF s.err # "none" THEN [rl |-> rl1, nt |-> s.nt, err |-> s.err]
             ELSE AddResults(Tail(results), rl1, s.nt, hp)

\* new_backend_result is None: the call returns at once
AddDataNone == UNCHANGED vars

AddData(new_backend_result, rerun_fit) ==
    /\ Len(result_list) + Len(new_backend_result) <= MaxResults
    /\ LET a == AddResults(new_backend_result, result_list, ntrials,
                           heavy_output_prob_ideal)
           run_data  == rerun_fit /\ a.err = "none"
           d == CalcDataOf(a.rl, a.nt, heavy_outputs, circ_shots,
                           heavy_output_counts)
           run_stats == run_data /\ d.err = "none"
           c == CalcStatisticsOf(a.nt, d.shots, d.counts,
                                 heavy_output_prob_ideal)
           e == IF ~run_data THEN a.err
                ELSE IF ~run_stats THEN d.err ELSE c.err
       IN  /\ result_list' = a.rl
           /\ ntrials' = a.nt
           /\ circ_shots' = IF run_data THEN d.shots ELSE circ_shots
           /\ heavy_output_counts' = IF run_data THEN d.counts
                                     ELSE heavy_output_counts
           /\ ydata' = IF run_stats THEN c.ydata ELSE ydata
           /\ op' = "add_data"
           /\ err' = e
           /\ success_list' = <<>>
           /\ fit' = IF run_stats THEN FitAfterStatistics(FitAfterData("stale"))
                     ELSE IF run_data THEN FitAfterData("stale") ELSE "stale"
           /\ raised' = (raised \/ e # "none")
           /\ UNCHANGED <<heavy_outputs, heavy_output_prob_ideal, pvectors>>

(***************************************************************************)
(* qv_success                                                              *)
(***************************************************************************)
TwoThirds == Frac(2, 3)

\* 0.5 * (1 + erf(z / 2**0.5)), the standard normal distribution function
\* at z >= 0, given z squared.  The value is rounded up to the next of the
\* levels 0.75, 0.9, 0.95, 0.975, 0.99 and 1, so that it is greater than a
\* level exactly when the distribution function is; the squares of the
\* quantiles of the levels are given to four decimals.
NormalCdf(zsquared) ==
    LET levels == << <<Frac(4549, 10000), 750>>, <<Frac(16424, 10000), 900>>,
                     <<Frac(27055, 10000), 950>>, <<Frac(38415, 10000), 975>>,
                     <<Frac(54119, 10000), 990>> >>
        at     == {k \in DOMAIN levels : ~RGreater(zsquared, levels[k][1])}
    IN  IF at = {} THEN One
        ELSE Frac(levels[CHOOSE k \in at : \A j \in at : k <= j][2], 1000)

\* cfd of qv_success.  With a standard error of 0 the quotient is
\* (hmean - 2/3) / 1e-10, where the distribution function is 1.0; with any
\* other standard error of the model the floor 1e-10 changes no comparison
\* of the quotient with a quantile.
Confidence(hmean, sigma) ==
    IF IsNaN(sigma.root) THEN NaN
    ELSE IF sigma.root = Zero THEN One
    ELSE LET x == RSub(hmean, TwoThirds)
         IN  NormalCdf(RDiv(RMul(x, x), sigma.root))

\* the confidence is not consulted
ConfidentAlways(cfd) == TRUE

\* cfd > 0.975
Confident(cfd) == RGreater(cfd, Frac(975, 1000))

\* the entry of success_list of one depth
SuccessOf(hmean, sigma) ==
    IF RGreater(hmean, TwoThirds)
    THEN LET cfd == Confidence(hmean, sigma)
         IN  <<Confident(cfd), cfd>>
    ELSE <<FALSE, Zero>>

\* self._ydata[0] of the empty list of __init__ raises IndexError
QvSuccess ==
    /\ op' = "qv_success"
    /\ IF ydata = <<>> /\ Len(Depths) > 0
       THEN /\ err' = "IndexError"
            /\ success_list' = <<>>
       ELSE /\ err' = "none"
            /\ success_list' =
                   [depth_ind \in 1 .. Len(Depths) |->
                       SuccessOf(ydata[1][depth_ind], ydata[2][depth_ind])]
    /\ UNCHANGED <<heavy_outputs, heavy_output_prob_ideal, result_list, ntrials,
                   circ_shots, heavy_output_counts, ydata, fit, pvectors,
                   raised>>

(***************************************************************************)
(* The methods are called in any order, one at a time.                     *)
(***************************************************************************)
Next ==
    \/ AddStatevectorsNone
    \/ \E new_statevector_result \in SvInputs :
           AddStatevectors(new_statevector_result)
    \/ AddDataNone
    \/ \E new_backend_result \in DataInputs, rerun_fit \in BOOLEAN :
           AddData(new_backend_result, rerun_fit)
    \/ CalcData
    \/ CalcStatistics
    \/ QvSuccess

Spec == Init /\ [][Next]_vars

(***************************************************************************)
(* Definitions used to state the properties.                               *)
(***************************************************************************)
\* the names of the circuits of a list of results
NamesOf(results) ==
    UNION {{results[k][j].name : j \in DOMAIN results[k]} : k \in DOMAIN results}

Registered == DOMAIN heavy_output_prob_ideal

RECURSIVE Total(_)
\* the sum of the values of a function into the integers
Total(f) ==
    IF DOMAIN f = {} THEN 0
    ELSE LET x == CHOOSE y \in DOMAIN f : TRUE
         IN  f[x] + Total([y \in DOMAIN f \ {x} |-> f[y]])

RECURSIVE TotalFrac(_)
\* the sum of the values of a function into the fractions
TotalFrac(f) ==
    IF DOMAIN f = {} THEN Zero
    ELSE LET x == CHOOSE y \in DOMAIN f : TRUE
         IN  RAdd(f[x], TotalFrac([y \in DOMAIN f \ {x} |-> f[y]]))

Range(f) == {f[x] : x \in DOMAIN f}

BitStrings(depth) == [1 .. depth -> {0, 1}]

\* the number a bit string is the binary numeral of
RECURSIVE NumberOf(_)
NumberOf(bits) ==
    IF bits = <<>> THEN 0
    ELSE 2 * NumberOf(SubSeq(bits, 1, Len(bits) - 1)) + bits[Len(bits)]

\* the ideal probability of a bit string of a registered circuit
IdealProb(circname, bits) == Frac(pvectors[circname][NumberOf(bits) + 1], 10)

\* the k-th smallest of the values of a function into the fractions
Smallest(probs, k) ==
    LET below(v)  == Cardinality({s \in DOMAIN probs : RGreater(v, probs[s])})
        atmost(v) == Cardinality({s \in DOMAIN probs : ~RGreater(probs[s], v)})
    IN  CHOOSE v \in Range(probs) : below(v) < k /\ k <= atmost(v)

\* the ideal probabilities of the 2^d bit strings of a registered circuit
IdealProbs(circname) ==
    [s \in BitStrings(NameDepth(circname)) |-> IdealProb(circname, s)]

\* the median of the 2^d ideal probabilities of a registered circuit
IdealMedian(circname) ==
    LET half  == Pow2(NameDepth(circname)) \div 2
        probs == IdealProbs(circname)
    IN  RDiv(RAdd(Smallest(probs, half), Smallest(probs, half + 1)), FromInt(2))

\* the bit strings of a registered circuit that are more probable than the median
IdealHeavy(circname) ==
    LET median == IdealMedian(circname)
        probs  == IdealProbs(circname)
    IN  {s \in DOMAIN probs : RGreater(probs[s], median)}

(***************************************************************************)
(* C1.  add_data raises the missing-ideal-distribution error whenever a    *)
(* circuit of a result it is given has no ideal distribution registered    *)
(* before the call, whatever rerun_fit is and whatever was ingested        *)
(* before, and does not raise that error when every circuit is registered. *)
(***************************************************************************)
C1_MissingIdealRaised ==
    [][\A new_backend_result \in DataInputs, rerun_fit \in BOOLEAN :
          AddData(new_backend_result, rerun_fit)
          => (err' = "MissingIdeal"
              <=> ~(NamesOf(new_backend_result) \subseteq Registered))]_vars

\* add_data has raised the error with ideal distributions registered and a
\* result ingested before
C1_Witness ==
    /\ op = "add_data"
    /\ err = "MissingIdeal"
    /\ Registered # {}
    /\ Len(result_list) = 2
    /\ NamesOf(<<result_list[1]>>) \subseteq Registered

(***************************************************************************)
(* C2.  Registering an ideal distribution for a name that is registered    *)
(* already, by an earlier call or earlier in the same call, raises the     *)
(* duplicate-registration error, and no step changes                       *)
(* the heavy set or the ideal heavy-output probability of a registered     *)
(* name.                                                                   *)
(***************************************************************************)
C2_RegisteredOnce ==
    [][/\ \A new_statevector_result \in SvInputs :
             /\ AddStatevectors(new_statevector_result)
             /\ LET circs == Flatten(new_statevector_result)
                IN  \E k \in DOMAIN circs :
                        \/ circs[k].name \in DOMAIN heavy_outputs
                        \/ \E j \in 1 .. k - 1 : circs[j].name = circs[k].name
             => err' = "Duplicate"
       /\ \A circname \in DOMAIN heavy_outputs :
             /\ circname \in DOMAIN heavy_outputs'
             /\ heavy_outputs'[circname] = heavy_outputs[circname]
       /\ \A circname \in DOMAIN heavy_output_prob_ideal :
             /\ circname \in DOMAIN heavy_output_prob_ideal'
             /\ heavy_output_prob_ideal'[circname]
                    = heavy_output_prob_ideal[circname]]_vars

\* a second registration of the depth 1 circuit of trial 0, with another
\* vector than the first, has raised the error
C2_Witness ==
    /\ op = "add_statevectors"
    /\ err = "Duplicate"
    /\ CircName(1, 0) \in DOMAIN heavy_outputs
    /\ pvectors[CircName(1, 0)] = PVectorAlone
    /\ CircName(2, 0) \in DOMAIN heavy_outputs

(***************************************************************************)
(* C3.  The heavy set stored for a registered circuit of depth d holds     *)
(* exactly the d-bit strings whose ideal probability is greater than the   *)
(* median of the 2^d ideal probabilities, each once, and the stored ideal  *)
(* heavy-output probability is the sum of their ideal probabilities.       *)
(***************************************************************************)
C3_HeavySetAboveMedian ==
    \A circname \in DOMAIN heavy_outputs :
        LET heavy == IdealHeavy(circname)
        IN  /\ Range(heavy_outputs[circname]) = heavy
            /\ Len(heavy_outputs[circname]) = Cardinality(heavy)
            /\ circname \in DOMAIN heavy_output_prob_ideal
            /\ heavy_output_prob_ideal[circname]
                   = TotalFrac([s \in heavy |-> IdealProb(circname, s)])

\* a circuit is registered whose distribution has bit strings at the median,
\* and one whose heavy set is empty
C3_Witness ==
    /\ CircName(2, 1) \in DOMAIN heavy_outputs
    /\ heavy_outputs[CircName(2, 1)] = <<Bits2(0, 0)>>
    /\ heavy_output_prob_ideal[CircName(2, 1)] = Frac(4, 10)
    /\ CircName(1, 1) \in DOMAIN heavy_outputs
    /\ heavy_outputs[CircName(1, 1)] = <<>>

(***************************************************************************)
(* C4.  When calc_data has returned, the stored total shots of every       *)
(* circuit of a configured depth and a trial below the trial count are the *)
(* sum of all its counts in the accumulated results that contain it, and   *)
(* its stored heavy-output count is the sum of its counts of the bit       *)
(* strings of its heavy set in those results; a result without the circuit *)
(* and a heavy bit string without counts add nothing.                      *)
(***************************************************************************)
\* the accumulated results that contain a circuit
ResultsWith(circname) ==
    {k \in DOMAIN result_list :
        \E j \in DOMAIN result_list[k] : result_list[k][j].name = circname}

\* the counts of a circuit in the k-th accumulated result
CountsIn(k, circname) ==
    result_list[k][CHOOSE j \in DOMAIN result_list[k] :
                       result_list[k][j].name = circname].counts

\* calc_data has returned, and nothing was ingested since
DataComputed ==
    /\ err = "none"
    /\ op = "calc_data" \/ (op = "add_data" /\ fit = "fresh")

C4_ShotsAndHeavyCounts ==
    DataComputed =>
        \A d \in Range(Depths), t \in 0 .. ntrials - 1 :
            LET circname == CircName(d, t)
                heavy    == Range(heavy_outputs[circname])
            IN  /\ circname \in DOMAIN circ_shots
                /\ circname \in DOMAIN heavy_output_counts
                /\ circ_shots[circname]
                       = Total([k \in ResultsWith(circname) |->
                                   Total(CountsIn(k, circname))])
                /\ heavy_output_counts[circname]
                       = Total([k \in ResultsWith(circname) |->
                                   Total([b \in heavy \cap DOMAIN CountsIn(k, circname)
                                             |-> CountsIn(k, circname)[b]])])

\* calc_data has returned with the depth 2 circuit of trial 0 in two results
\* of different counts, the depth 1 circuit in one of them, and a heavy bit
\* string, 01, that one of the results has no counts of
C4_Witness ==
    /\ DataComputed
    /\ op = "calc_data"
    /\ ntrials = 1
    /\ Cardinality(ResultsWith(CircName(2, 0))) = 2
    /\ Cardinality(ResultsWith(CircName(1, 0))) = 1
    /\ result_list[1] # result_list[2]
    /\ circ_shots[CircName(2, 0)] = 60
    /\ heavy_output_counts[CircName(2, 0)] = 56

(***************************************************************************)
(* C5.  When calc_statistics has returned, with N the trial count, for     *)
(* every depth: row 0 is the sum of the stored heavy-output counts of the  *)
(* N trials of the depth divided by the sum of their stored total shots    *)
(* (nan when that is 0); row 2 is the sum of their ideal heavy-output      *)
(* probabilities divided by N (nan when N is 0); rows 1 and 3 are the      *)
(* square roots of p(1-p)/N for the p of rows 0 and 2.  Only the circuits  *)
(* of the depth itself enter its values.                                   *)
(***************************************************************************)
\* calc_statistics has returned, and nothing was ingested or computed since
StatisticsComputed ==
    /\ err = "none"
    /\ op = "calc_statistics" \/ (op = "add_data" /\ fit = "fresh")

\* y is n divided by m
IsQuotient(y, n, m) ==
    IF m = 0 THEN IsNaN(y)
    ELSE ~IsNaN(y) /\ y[2] > 0 /\ y[1] * m = n * y[2]

\* e is the square root of p(1-p)/n
IsStdErr(e, p, n) ==
    IF IsNaN(p) \/ n = 0 THEN IsNaN(e.root)
    ELSE ~IsNaN(e.root) /\ RMul(e.root, FromInt(n)) = RMul(p, RSub(One, p))

C5_StatisticsTable ==
    StatisticsComputed =>
        /\ DOMAIN ydata = 1 .. 4
        /\ \A row \in 1 .. 4 : DOMAIN ydata[row] = DOMAIN Depths
        /\ \A depthidx \in DOMAIN Depths :
              LET trials == 0 .. ntrials - 1
                  heavy  == Total([t \in trials |->
                                heavy_output_counts[CircName(Depths[depthidx], t)]])
                  shots  == Total([t \in trials |->
                                circ_shots[CircName(Depths[depthidx], t)]])
                  ideal  == TotalFrac([t \in trials |->
                                heavy_output_prob_ideal[CircName(Depths[depthidx], t)]])
              IN  /\ IsQuotient(ydata[1][depthidx], heavy, shots)
                  /\ IsStdErr(ydata[2][depthidx], ydata[1][depthidx], ntrials)
                  /\ IF ntrials = 0 THEN IsNaN(ydata[3][depthidx])
                     ELSE RMul(ydata[3][depthidx], FromInt(ntrials)) = ideal
                  /\ IsStdErr(ydata[4][depthidx], ydata[3][depthidx], ntrials)

\* calc_statistics has returned for two trials whose depth 2 circuits have
\* 10 and 2 shots: row 0 is 8/12, not the mean 3/5 of 7/10 and 1/2, and row 2
\* is the mean 11/20 of 7/10 and 4/10
C5_Witness ==
    /\ StatisticsComputed
    /\ op = "calc_statistics"
    /\ ntrials = 2
    /\ circ_shots[CircName(2, 0)] = 10
    /\ circ_shots[CircName(2, 1)] = 2
    /\ ydata[1][2] = Frac(8, 12)
    /\ ydata[3][2] = Frac(11, 20)
    /\ ydata[1][1] # ydata[1][2]

(***************************************************************************)
(* C6.  When qv_success has returned, its list has one pair (success,      *)
(* confidence) per configured depth.  For a depth whose empirical          *)
(* heavy-output probability is not greater than 2/3 (it is at most 2/3, or *)
(* undefined) the pair is (false, 0.0).  For any other depth the           *)
(* confidence is the normal distribution function at                       *)
(* (mean - 2/3) / (standard error + 1e-10), and success is true exactly    *)
(* when the confidence is greater than 0.975: when the standard error is 0 *)
(* or the square of the quotient is above the square 3.8415 of the         *)
(* quantile of 0.975.  So a mean above 2/3 alone does not give success.    *)
(***************************************************************************)
C6_SuccessNeedsConfidence ==
    (op = "qv_success" /\ err = "none") =>
        /\ Len(success_list) = Len(Depths)
        /\ \A depth_ind \in DOMAIN Depths :
              LET hmean   == ydata[1][depth_ind]
                  sigma   == ydata[2][depth_ind]
                  success == success_list[depth_ind][1]
                  cfd     == success_list[depth_ind][2]
                  above   == ~IsNaN(hmean) /\ 3 * hmean[1] > 2 * hmean[2]
                  excess  == RSub(hmean, Frac(2, 3))
              IN  /\ ~above => (~success /\ cfd = Zero)
                  /\ above =>
                        /\ cfd = Confidence(hmean, sigma)
                        /\ success <=> RGreater(cfd, Frac(975, 1000))
                        /\ success <=>
                              \/ sigma.root = Zero
                              \/ RGreater(RDiv(RMul(excess, excess), sigma.root),
                                          Frac(38415, 10000))
                  /\ success => above

\* qv_success has returned for one trial with a mean of 0.7 at depth 2: not a
\* success, with a confidence that is not 0; and with a mean of 2/3 at depth 1
C6_Witness ==
    /\ op = "qv_success"
    /\ err = "none"
    /\ ntrials = 1
    /\ ydata[1][2] = Frac(7, 10)
    /\ success_list[2][1] = FALSE
    /\ success_list[2][2] # Zero
    /\ ydata[1][1] = Frac(2, 3)
    /\ success_list[1] = <<FALSE, Zero>>

(***************************************************************************)
(* C7.  calc_data on tables that calc_data and calc_statistics have        *)
(* computed, with nothing ingested since, leaves the total shots and the   *)
(* heavy-output counts as they are, and calc_statistics after it leaves    *)
(* the statistics table as it is; neither changes the result list, the     *)
(* trial count, the heavy sets or the ideal heavy-output probabilities.    *)
(***************************************************************************)
C7_RecomputationIdempotent ==
    [][/\ (fit \in {"fresh", "refresh"} /\ op' = "calc_data")
             => /\ circ_shots' = circ_shots
                /\ heavy_output_counts' = heavy_output_counts
                /\ ydata' = ydata
       /\ (fit = "redata" /\ op' = "calc_statistics")
             => /\ circ_shots' = circ_shots
                /\ heavy_output_counts' = heavy_output_counts
                /\ ydata' = ydata
       /\ op' \in {"calc_data", "calc_statistics"}
             => /\ result_list' = result_list
                /\ ntrials' = ntrials
                /\ heavy_outputs' = heavy_outputs
                /\ heavy_output_prob_ideal' = heavy_output_prob_ideal]_vars

\* the tables of two trials and two results have been computed a second time
C7_Witness ==
    /\ fit = "refresh"
    /\ op = "calc_statistics"
    /\ err = "none"
    /\ ntrials = 2
    /\ Len(result_list) = 2
    /\ \A depthidx \in DOMAIN Depths : ~IsNaN(ydata[1][depthidx])

(***************************************************************************)
(* C8.  When no ingestion has raised and the tables have been computed     *)
(* from the accumulated results, the trial count, the total shots, the     *)
(* heavy-output counts and the statistics table are those that ingesting   *)
(* the same results into a fitter with the same ideal distributions, in    *)
(* any other order and in one call, followed by one recomputation, gives.  *)
(***************************************************************************)
Orders(n) ==
    {f \in [1 .. n -> 1 .. n] : \A i, j \in 1 .. n : f[i] = f[j] => i = j}

\* a fitter with the ideal distributions registered is given the results in
\* one add_data call with rerun_fit false; calc_data and calc_statistics follow
Replay(results) ==
    LET a == AddResults(results, <<>>, 0, heavy_output_prob_ideal)
        d == CalcDataOf(a.rl, a.nt, heavy_outputs, EmptyDict, EmptyDict)
        c == CalcStatisticsOf(a.nt, d.shots, d.counts, heavy_output_prob_ideal)
    IN  [ntrials |-> a.nt, circ_shots |-> d.shots,
         heavy_output_counts |-> d.counts, ydata |-> c.ydata]

C8_OrderAndGroupingIrrelevant ==
    (~raised /\ fit \in {"fresh", "refresh"}) =>
        \A f \in Orders(Len(result_list)) :
            Replay([k \in 1 .. Len(result_list) |-> result_list[f[k]]])
                = [ntrials |-> ntrials, circ_shots |-> circ_shots,
                   heavy_output_counts |-> heavy_output_counts, ydata |-> ydata]

\* two different results, the one of the later trial first, were ingested
\* without recomputation, and the tables were computed on demand
C8_Witness ==
    /\ ~raised
    /\ fit = "fresh"
    /\ op = "calc_statistics"
    /\ err = "none"
    /\ Len(result_list) = 2
    /\ result_list[1] = RunFull(1)
    /\ result_list[2] = RunAlone(0)
    /\ ntrials = 2

(***************************************************************************)
(* C9.  An add_data call that raises the missing-ideal-distribution error  *)
(* leaves the result list, the trial count and the tables as they were     *)
(* before the call, so that every circuit of every accumulated result has  *)
(* an ideal distribution registered.                                       *)
(***************************************************************************)
C9_FailedAddDataChangesNothing ==
    [][/\ (op' = "add_data" /\ err' = "MissingIdeal")
             => /\ result_list' = result_list
                /\ ntrials' = ntrials
                /\ circ_shots' = circ_shots
                /\ heavy_output_counts' = heavy_output_counts
                /\ ydata' = ydata
       /\ NamesOf(result_list') \subseteq DOMAIN heavy_output_prob_ideal']_vars

(***************************************************************************)
(* C10.  When no add_statevectors and no add_data call has raised,         *)
(* calc_data does not fail: it finds a heavy set for every circuit of a    *)
(* configured depth and a trial below the trial count.                     *)
(***************************************************************************)
C10_RecomputationNeverFails ==
    (~raised /\ op = "calc_data") =>
        /\ err = "none"
        /\ \A d \in Range(Depths), t \in 0 .. ntrials - 1 :
               CircName(d, t) \in DOMAIN heavy_outputs
====
